---------------------------- MODULE Spec2Model ----------------------------
(***************************************************************************)
(* A model of the OPC UA client of jupiter-scada                           *)
(* (src/src/jupiter_scada/opcua/client.py): the OpcuaClient object, its    *)
(* supervisory task (_connection_manager), the callers of start(), stop()  *)
(* and disconnect(), the subscription handler with the update tasks it     *)
(* spawns, and the readers of the tag cache.                               *)
(*                                                                         *)
(* The program runs on one asyncio event loop: a task runs without         *)
(* interruption from one suspension point (an await that really waits) to  *)
(* the next.  Every action below is one such run.  The asyncua transport   *)
(* is the environment: each awaited transport call completes with success  *)
(* or with an exception, or is interrupted by the cancellation of the      *)
(* task that awaits it.                                                    *)
(***************************************************************************)
EXTENDS Integers, Sequences, FiniteSets, TLC

(***************************************************************************)
(* Bounds of the model.                                                    *)
(***************************************************************************)
\* Number of supervisory tasks start() may create.
MaxTasks == 2
\* Number of transport sessions the server side may open.
MaxEpoch == 2
\* Data values the server may report are DataValue(1) .. DataValue(MaxValue).
MaxValue == 2
\* Update tasks that may be waiting in the event loop's ready queue.
MaxPending == 1

\* The seconds the supervisory loop sleeps at the end of every iteration.
RECONNECT_INTERVAL_SECONDS == 10

(***************************************************************************)
(* Configuration (settings.opc_tags): the tags in configured order.  The   *)
(* node id of the second tag is malformed, so that client.get_node raises  *)
(* ua.UaError for it in every session.                                     *)
(***************************************************************************)
opc_tags ==
    << [name |-> "A", node_id |-> "addr1"],
       [name |-> "X", node_id |-> "malformed"],
       [name |-> "B", node_id |-> "addr2"] >>

TagNames == { opc_tags[i].name : i \in 1..Len(opc_tags) }

\* A name no tag is configured with (a caller may still ask for it).
Unconfigured == "unconfigured"

\* client.get_node(node_id) returns a Node unless the id fails to parse.
\* A Node compares and hashes by its node id, so the node is the id.
NodeResolves(node_id) == node_id # "malformed"

(***************************************************************************)
(* Python values.                                                          *)
(***************************************************************************)
\* None, and a present value x, of an Optional.
None == << >>
Some(x) == << x >>

\* No task, no subscription.
NoTask == 0
NoSubscription == 0

\* datetime.utcnow(): the local wall clock, abstracted to one value that no
\* source timestamp equals.
utcnow == << "local" >>

\* The ua.DataValue the server reports for k: its Value.Value, its
\* StatusCode.name and its SourceTimestamp, which the server may leave out.
DataValue(k) ==
    [ Value |-> Some(k),
      StatusCode |-> IF k % 2 = 1 THEN "Good" ELSE "Bad",
      SourceTimestamp |-> IF k % 2 = 1 THEN << "source", k >> ELSE None ]

Values == 1..MaxValue

(***************************************************************************)
(* The LiveTag objects and the data store.                                 *)
(***************************************************************************)
\* Mutant of InitialLiveTag: the constructor marks a new entry "Good".
InitialLiveTag_good(tag) ==
    [ name |-> tag.name, node_id |-> tag.node_id,
      value |-> None, status |-> "Good", timestamp |-> utcnow ]

\* LiveTag(name=..., node_id=..., value=None, status="Uncertain",
\*         timestamp=datetime.utcnow())
InitialLiveTag(tag) ==
    [ name |-> tag.name, node_id |-> tag.node_id,
      value |-> None, status |-> "Uncertain", timestamp |-> utcnow ]

\* _initialize_data_store: one entry per configured tag, keyed by its name.
InitialDataStore ==
    [ n \in TagNames |->
        InitialLiveTag(CHOOSE t \in { opc_tags[i] : i \in 1..Len(opc_tags) } :
                           t.name = n) ]

EmptyMap == [ x \in {} |-> x ]

\* map[key] = value
Put(map, key, value) ==
    [ k \in (DOMAIN map) \cup {key} |-> IF k = key THEN value ELSE map[k] ]

(***************************************************************************)
(* OpcuaClient.__init__                                                    *)
(***************************************************************************)
InitialClient ==
    [ is_connected |-> FALSE,
      running |-> FALSE,
      connection_task |-> NoTask,
      subscription |-> NoSubscription,
      data_store |-> InitialDataStore,
      node_map |-> EmptyMap ]

\* Mutant of IsConnected: the property reports the running flag.
IsConnected_running(c) == c.running

\* The is_connected property.
IsConnected(c) == c.is_connected

(***************************************************************************)
(* update_tag_value_from_node: the lookup in the node map, then, under the *)
(* lock, the three assignments to the LiveTag.  The lock is never held     *)
(* across a suspension point, so acquiring it never waits and the whole    *)
(* coroutine is one uninterrupted run.                                     *)
(***************************************************************************)
\* Mutant of AssignLiveTag: the timestamp assignment is missing.
AssignLiveTag_without_timestamp(live_tag, data_value) ==
    [ live_tag EXCEPT
        !.value = data_value.Value,
        !.status = data_value.StatusCode ]

\* The three assignments of the locked section.
AssignLiveTag(live_tag, data_value) ==
    [ live_tag EXCEPT
        !.value = data_value.Value,
        !.status = data_value.StatusCode,
        !.timestamp = IF data_value.SourceTimestamp # None
                      THEN data_value.SourceTimestamp ELSE utcnow ]

\* Mutant of update_tag_value_from_node: the entry is stored under the node
\* instead of the tag name.
update_keyed_by_node(c, node, data_value) ==
    IF node \notin DOMAIN c.node_map
    THEN c
    ELSE LET tag_name == c.node_map[node] IN
         IF tag_name \in DOMAIN c.data_store
         THEN [ c EXCEPT !.data_store =
                    Put(c.data_store, node,
                        AssignLiveTag(c.data_store[tag_name], data_value)) ]
         ELSE c

\* Mutant of update_tag_value_from_node: a node missing from the node map is
\* looked up among the configured node ids instead of being discarded.
update_with_fallback(c, node, data_value) ==
    LET byId == { n \in DOMAIN c.data_store : c.data_store[n].node_id = node }
        names == IF node \in DOMAIN c.node_map
                 THEN {c.node_map[node]} \cap DOMAIN c.data_store
                 ELSE byId
    IN  [ c EXCEPT !.data_store =
            [ n \in DOMAIN c.data_store |->
                IF n \in names THEN AssignLiveTag(c.data_store[n], data_value)
                ELSE c.data_store[n] ] ]

\* Mutant of update_tag_value_from_node: the data value of a mapped node is
\* written to every entry of the data store.
update_every_entry(c, node, data_value) ==
    IF node \notin DOMAIN c.node_map
    THEN c
    ELSE [ c EXCEPT !.data_store =
             [ n \in DOMAIN c.data_store |->
                 AssignLiveTag(c.data_store[n], data_value) ] ]

\* Mutant of update_tag_value_from_node: the tag is found by its configured
\* node id, whatever the node map holds.
update_by_configured_id(c, node, data_value) ==
    [ c EXCEPT !.data_store =
        [ n \in DOMAIN c.data_store |->
            IF c.data_store[n].node_id = node
            THEN AssignLiveTag(c.data_store[n], data_value)
            ELSE c.data_store[n] ] ]

update_tag_value_from_node(c, node, data_value) ==
    IF node \notin DOMAIN c.node_map
    THEN c      \* tag_name is None: "update for an unmapped node"
    ELSE LET tag_name == c.node_map[node] IN
         IF tag_name \in DOMAIN c.data_store
         THEN [ c EXCEPT !.data_store[tag_name] =
                             AssignLiveTag(c.data_store[tag_name], data_value) ]
         ELSE c

\* How update_tag_value_from_node ends: it returns after the warning for an
\* unmapped node, after the write, or after the warning for a name missing
\* from the data store.
update_outcome(c, node, data_value) ==
    IF node \notin DOMAIN c.node_map THEN "returned_unmapped"
    ELSE IF c.node_map[node] \in DOMAIN c.data_store THEN "returned_written"
    ELSE "returned_not_in_store"

\* Mutant of disconnect_finally: the finally clause leaves the node map.
disconnect_finally_keeps_map(c) ==
    [ c EXCEPT !.is_connected = FALSE,
               !.subscription = NoSubscription ]

(***************************************************************************)
(* disconnect(): the finally clause.                                       *)
(***************************************************************************)
disconnect_finally(c) ==
    [ c EXCEPT !.is_connected = FALSE,
               !.subscription = NoSubscription,
               !.node_map = EmptyMap ]

(***************************************************************************)
(* _initialize_subscriptions: the loop over the configured tags, which     *)
(* resolves each node id and enters the node in the node map; a tag whose  *)
(* node id raises ua.UaError is skipped.                                   *)
(***************************************************************************)
\* Mutant of ResolveTags: the first node id that fails to resolve ends the loop.
RECURSIVE ResolveTags_aborting(_, _)
ResolveTags_aborting(tags, acc) ==
    IF tags = << >>
    THEN acc
    ELSE LET tag_config == Head(tags) IN
         IF NodeResolves(tag_config.node_id)
         THEN ResolveTags_aborting(Tail(tags),
                  [ nodes |-> Append(acc.nodes, tag_config.node_id),
                    node_map |-> Put(acc.node_map, tag_config.node_id,
                                     tag_config.name) ])
         ELSE acc

RECURSIVE ResolveTags(_, _)
ResolveTags(tags, acc) ==
    IF tags = << >>
    THEN acc
    ELSE LET tag_config == Head(tags) IN
         IF NodeResolves(tag_config.node_id)
         THEN ResolveTags(Tail(tags),
                  [ nodes |-> Append(acc.nodes, tag_config.node_id),
                    node_map |-> Put(acc.node_map, tag_config.node_id,
                                     tag_config.name) ])
         ELSE ResolveTags(Tail(tags), acc)

\* nodes_to_subscribe, which depends on the configuration alone.
nodes_to_subscribe == ResolveTags(opc_tags, [nodes |-> << >>, node_map |-> EmptyMap]).nodes

\* Mutant of PopulateFrom: every node gets the first data value.
RECURSIVE PopulateFrom_first_value(_, _, _, _)
PopulateFrom_first_value(c, nodes, data_values, i) ==
    IF i > Len(nodes)
    THEN c
    ELSE PopulateFrom_first_value(
             update_tag_value_from_node(c, nodes[i], data_values[1]),
             nodes, data_values, i + 1)

\* _populate_initial_data: the loop applying data_values[i] to nodes[i].
RECURSIVE PopulateFrom(_, _, _, _)
PopulateFrom(c, nodes, data_values, i) ==
    IF i > Len(nodes)
    THEN c
    ELSE PopulateFrom(update_tag_value_from_node(c, nodes[i], data_values[i]),
                      nodes, data_values, i + 1)

(***************************************************************************)
(* State.                                                                  *)
(***************************************************************************)
VARIABLES
    client,       \* the fields of the OpcuaClient object
    task,         \* task[i]: where supervisory task i is suspended
    cancel_req,   \* tasks whose cancel() was called and not yet delivered
    stop_call,    \* the caller of stop(): where it is suspended ("idle": in no
                  \* call), and the task it awaits
    disc_pc,      \* the caller of a direct disconnect(): where it is suspended
    epoch,        \* number of sessions the transport has opened
    open,         \* sessions open on the transport
    subscribed,   \* sessions holding monitored items for nodes_to_subscribe
    pending,      \* update tasks created by datachange_notification, in order
    held,         \* what the last reader got from the cache
    ever_connected, \* history: some client.connect() has returned
    updated,      \* history: tag names whose entry an update has written
    seeded,       \* history: what the bulk read of the setup that has just
                  \* completed returned, and in which session; forgotten
                  \* when an update task of a notification runs, the manager
                  \* resumes, or a stop or a teardown acts
    call,         \* the caller of start(), read_value() and write_value():
                  \* the last call, where it is suspended or how it ended
    all_data,     \* the endpoint's input: what the client reports
    response,     \* the endpoint's last response
    health,       \* the health surface's last response
    waited        \* the seconds the supervisory task slept right before the
                  \* connect attempt in progress (0: it is the task's first
                  \* attempt, or no attempt is in progress)

vars == << client, task, cancel_req, stop_call, disc_pc, epoch, open,
           subscribed, pending, held, ever_connected, updated, seeded,
           call, all_data, response,
                    health, waited >>

TaskIds == 1..MaxTasks

\* No bulk read has returned, or a notification has been applied since.
NoSeed == [ session |-> NoSubscription, data_values |-> << >> ]

\* No call of start(), read_value() or write_value() has been made.
NoCall == [ op |-> "none", node_id |-> "none", pc |-> "idle", ops |-> 0, seq |-> 0 ]

\* The endpoint has built no response.
NoResponse == [ status_code |-> 0, tags |-> EmptyMap ]

\* The health surface has answered no request.
NoHealth == [ status_code |-> 0, status |-> "none", opcua_connected |-> FALSE ]

\* A reader holds nothing before its first call.
NoResult == [ query |-> "none", found |-> FALSE, refs |-> {} ]

Init ==
    /\ client = InitialClient
    /\ task = [ i \in TaskIds |-> "none" ]
    /\ cancel_req = {}
    /\ stop_call = [ pc |-> "idle", task |-> NoTask ]
    /\ disc_pc = "idle"
    /\ epoch = 0
    /\ open = {}
    /\ subscribed = {}
    /\ pending = << >>
    /\ held = NoResult
    /\ ever_connected = FALSE
    /\ updated = {}
    /\ seeded = NoSeed
    /\ call = NoCall
    /\ all_data = EmptyMap
    /\ response = NoResponse
    /\ health = NoHealth
    /\ waited = 0

(***************************************************************************)
(* The event loop runs the tasks that are ready, in the order they became  *)
(* ready, before it handles what the transport and the timers deliver      *)
(* next.  An update task is ready from the moment datachange_notification  *)
(* creates it, and a cancelled task from the moment cancel() is called: an  *)
(* update runs before anything else is resumed, and a cancellation is      *)
(* delivered before any transport call completes, any sleep ends or any    *)
(* notification arrives.                                                   *)
(***************************************************************************)
NoUpdateReady == pending = << >>

EventLoopIdle == pending = << >> /\ cancel_req = {}

\* The session self.client is connected to: the last one it opened.
SessionAlive == epoch \in open

Live(i) == i \notin cancel_req

(***************************************************************************)
(* start()                                                                 *)
(***************************************************************************)
\* start() on a running client: "Client is already running."
StartAlreadyRunning ==
    /\ NoUpdateReady
    /\ client.running
    /\ UNCHANGED vars

start_client(c, i) == [ c EXCEPT !.running = TRUE, !.connection_task = i ]

Start ==
    /\ NoUpdateReady
    /\ ~client.running
    /\ \E i \in TaskIds :
        /\ task[i] = "none"
        /\ \A j \in TaskIds : j < i => task[j] # "none"
        /\ client' = start_client(client, i)
        /\ task' = [ task EXCEPT ![i] = "created" ]
    /\ UNCHANGED << cancel_req, stop_call, disc_pc, epoch, open, subscribed,
                    pending, held, ever_connected, updated,
                    seeded, call, all_data, response,
                    health, waited >>

(***************************************************************************)
(* _connection_manager, connect(), _initialize_subscriptions(),            *)
(* _populate_initial_data(): the runs of supervisory task i.               *)
(***************************************************************************)
\* Where a task that calls disconnect() is suspended next: in
\* client.disconnect() when connected, else disconnect() returns at once and
\* the task goes on to `otherwise`.
AfterDisconnectCall(c, in_disconnect, otherwise) ==
    IF IsConnected(c) THEN in_disconnect ELSE otherwise

\* The head of the while loop, reached when the task first runs and each
\* time asyncio.sleep(RECONNECT_INTERVAL_SECONDS) returns.
LoopHead(c) ==
    IF ~c.running THEN "ended"
    ELSE IF ~IsConnected(c) THEN "connecting"
    ELSE "sleeping"

MgrIterate(i) ==
    /\ EventLoopIdle
    /\ Live(i)
    /\ task[i] \in {"created", "sleeping"}
    /\ task' = [ task EXCEPT ![i] = LoopHead(client) ]
    /\ seeded' = NoSeed
    /\ waited' = IF LoopHead(client) = "connecting" /\ task[i] = "sleeping"
                 THEN RECONNECT_INTERVAL_SECONDS ELSE 0
    /\ UNCHANGED << client, cancel_req, stop_call, disc_pc, epoch, open,
                    subscribed, pending, held, ever_connected, updated,
                    call, all_data, response,
                    health >>

\* connect() after client.connect() returned.
connect_returned(c) == [ c EXCEPT !.is_connected = TRUE ]

\* client.connect() returns: connect() sets the flag, and
\* _initialize_subscriptions awaits client.create_subscription.
ConnectOk(i) ==
    /\ EventLoopIdle
    /\ Live(i)
    /\ task[i] = "connecting"
    /\ epoch < MaxEpoch
    /\ epoch' = epoch + 1
    /\ open' = open \cup {epoch + 1}
    /\ client' = connect_returned(client)
    /\ ever_connected' = TRUE
    /\ task' = [ task EXCEPT ![i] =
                   IF IsConnected(client') THEN "creating_sub" ELSE "sleeping" ]
    /\ waited' = 0
    /\ UNCHANGED << cancel_req, stop_call, disc_pc, subscribed, pending, held,
                    updated,
                    seeded, call, all_data, response,
                    health >>

\* Mutant of ConnectFail: the error of client.connect() leaves the loop.
ConnectFail_propagates(i) ==
    /\ EventLoopIdle
    /\ Live(i)
    /\ task[i] = "connecting"
    /\ task' = [ task EXCEPT ![i] = "ended" ]
    /\ waited' = 0
    /\ UNCHANGED << client, cancel_req, stop_call, disc_pc, epoch, open,
                    subscribed, pending, held, ever_connected, updated,
                    seeded, call, all_data, response,
                    health >>

\* client.connect() raises: the manager logs and calls disconnect().
ConnectFail(i) ==
    /\ EventLoopIdle
    /\ Live(i)
    /\ task[i] = "connecting"
    /\ task' = [ task EXCEPT ![i] =
                   AfterDisconnectCall(client, "teardown", "sleeping") ]
    /\ waited' = 0
    /\ UNCHANGED << client, cancel_req, stop_call, disc_pc, epoch, open,
                    subscribed, pending, held, ever_connected, updated,
                    seeded, call, all_data, response,
                    health >>

\* The subscription is stored and the configured tags are resolved into the
\* node map the client holds.
subscription_created(c, sub) ==
    [ c EXCEPT !.subscription = sub,
               !.node_map = ResolveTags(opc_tags,
                                [nodes |-> << >>, node_map |-> c.node_map]).node_map ]

CreateSubOk(i) ==
    /\ EventLoopIdle
    /\ Live(i)
    /\ task[i] = "creating_sub"
    /\ SessionAlive
    /\ client' = subscription_created(client, epoch)
    /\ task' = [ task EXCEPT ![i] =
                   IF nodes_to_subscribe # << >> THEN "subscribing" ELSE "sleeping" ]
    /\ UNCHANGED << cancel_req, stop_call, disc_pc, epoch, open, subscribed,
                    pending, held, ever_connected, updated,
                    seeded, call, all_data, response,
                    health, waited >>

\* Mutant of CreateSubFail: the manager gives up after the failed setup.
CreateSubFail_gives_up(i) ==
    /\ EventLoopIdle
    /\ Live(i)
    /\ task[i] = "creating_sub"
    /\ task' = [ task EXCEPT ![i] = "ended" ]
    /\ UNCHANGED << client, cancel_req, stop_call, disc_pc, epoch, open,
                    subscribed, pending, held, ever_connected, updated,
                    seeded, call, all_data, response,
                    health, waited >>

\* create_subscription raises: "Failed to create subscription", disconnect().
CreateSubFail(i) ==
    /\ EventLoopIdle
    /\ Live(i)
    /\ task[i] = "creating_sub"
    /\ task' = [ task EXCEPT ![i] =
                   AfterDisconnectCall(client, "teardown", "sleeping") ]
    /\ UNCHANGED << client, cancel_req, stop_call, disc_pc, epoch, open,
                    subscribed, pending, held, ever_connected, updated,
                    seeded, call, all_data, response,
                    health, waited >>

\* subscribe_data_change returns: the server now monitors the nodes, and
\* _populate_initial_data awaits client.read_values.
SubscribeOk(i) ==
    /\ EventLoopIdle
    /\ Live(i)
    /\ task[i] = "subscribing"
    /\ SessionAlive
    /\ subscribed' = subscribed \cup {epoch}
    /\ task' = [ task EXCEPT ![i] = "read_values" ]
    /\ UNCHANGED << client, cancel_req, stop_call, disc_pc, epoch, open,
                    pending, held, ever_connected, updated,
                    seeded, call, all_data, response,
                    health, waited >>

SubscribeFail(i) ==
    /\ EventLoopIdle
    /\ Live(i)
    /\ task[i] = "subscribing"
    /\ task' = [ task EXCEPT ![i] =
                   AfterDisconnectCall(client, "teardown", "sleeping") ]
    /\ UNCHANGED << client, cancel_req, stop_call, disc_pc, epoch, open,
                    subscribed, pending, held, ever_connected, updated,
                    seeded, call, all_data, response,
                    health, waited >>

ReadValuesOk(i) ==
    /\ EventLoopIdle
    /\ Live(i)
    /\ task[i] = "read_values"
    /\ SessionAlive
    /\ task' = [ task EXCEPT ![i] = "read_data_values" ]
    /\ UNCHANGED << client, cancel_req, stop_call, disc_pc, epoch, open,
                    subscribed, pending, held, ever_connected, updated,
                    seeded, call, all_data, response,
                    health, waited >>

\* Mutant of BulkReadFail: the error of the bulk read reaches the handler of
\* _initialize_subscriptions, which calls disconnect().
BulkReadFail_fatal(i) ==
    /\ EventLoopIdle
    /\ Live(i)
    /\ task[i] \in {"read_values", "read_data_values"}
    /\ task' = [ task EXCEPT ![i] =
                   AfterDisconnectCall(client, "teardown", "sleeping") ]
    /\ UNCHANGED << client, cancel_req, stop_call, disc_pc, epoch, open,
                    subscribed, pending, held, ever_connected, updated,
                    seeded, call, all_data, response,
                    health, waited >>

\* Either read raises: "Error during initial data population"; the setup
\* returns and the manager sleeps.
BulkReadFail(i) ==
    /\ EventLoopIdle
    /\ Live(i)
    /\ task[i] \in {"read_values", "read_data_values"}
    /\ task' = [ task EXCEPT ![i] = "sleeping" ]
    /\ UNCHANGED << client, cancel_req, stop_call, disc_pc, epoch, open,
                    subscribed, pending, held, ever_connected, updated,
                    seeded, call, all_data, response,
                    health, waited >>

\* The tag names an update of these nodes writes.
Written(c, nodes) ==
    { c.node_map[n] : n \in { m \in nodes : m \in DOMAIN c.node_map } }
        \cap DOMAIN c.data_store

Range(seq) == { seq[j] : j \in 1..Len(seq) }

\* read_data_values returns one DataValue per node: the seed.
ReadDataValuesOk(i) ==
    /\ EventLoopIdle
    /\ Live(i)
    /\ task[i] = "read_data_values"
    /\ SessionAlive
    /\ \E ks \in [ 1..Len(nodes_to_subscribe) -> Values ] :
         LET data_values == [ j \in 1..Len(nodes_to_subscribe) |-> DataValue(ks[j]) ]
         IN  /\ client' = PopulateFrom(client, nodes_to_subscribe, data_values, 1)
             /\ seeded' = [ session |-> epoch, data_values |-> data_values ]
    /\ updated' = updated \cup Written(client, Range(nodes_to_subscribe))
    /\ task' = [ task EXCEPT ![i] = "sleeping" ]
    /\ UNCHANGED << cancel_req, stop_call, disc_pc, epoch, open, subscribed,
                    pending, held, ever_connected, call, all_data, response,
                    health, waited >>

\* What client.disconnect() leaves of the session: released when it returns,
\* released or not when it raises or is interrupted.
SessionsAfterDisconnect(released) == IF released THEN open \ {epoch} ELSE open

\* Mutant of TeardownDone: after the teardown the manager connects again
\* without sleeping.
TeardownDone_retry_now(i) ==
    /\ EventLoopIdle
    /\ Live(i)
    /\ task[i] = "teardown"
    /\ \E released \in BOOLEAN : open' = SessionsAfterDisconnect(released)
    /\ client' = disconnect_finally(client)
    /\ task' = [ task EXCEPT ![i] = "connecting" ]
    /\ seeded' = NoSeed
    /\ UNCHANGED << cancel_req, stop_call, disc_pc, epoch, subscribed, pending,
                    held, ever_connected, updated,
                    call, all_data, response,
                    health, waited >>

\* client.disconnect() returns or raises in the manager's disconnect(): the
\* finally clause runs, and the manager sleeps.
TeardownDone(i) ==
    /\ EventLoopIdle
    /\ Live(i)
    /\ task[i] = "teardown"
    /\ \E released \in BOOLEAN : open' = SessionsAfterDisconnect(released)
    /\ client' = disconnect_finally(client)
    /\ task' = [ task EXCEPT ![i] = "sleeping" ]
    /\ seeded' = NoSeed
    /\ UNCHANGED << cancel_req, stop_call, disc_pc, epoch, subscribed, pending,
                    held, ever_connected, updated,
                    call, all_data, response,
                    health, waited >>

\* CancelledError is thrown into task i where it is suspended.  It is not an
\* Exception: no except clause of the manager catches it, only the finally
\* clause of disconnect() runs.  A cancelled client.connect() may have
\* opened the session already; a cancelled client.disconnect() may not have
\* released it yet.
ManagerCancelled(i) ==
    /\ NoUpdateReady
    /\ i \in cancel_req
    /\ cancel_req' = cancel_req \ {i}
    /\ task' = [ task EXCEPT ![i] = "ended" ]
    /\ client' = IF task[i] = "teardown" THEN disconnect_finally(client) ELSE client
    /\ \E opened \in BOOLEAN, released \in BOOLEAN :
        /\ opened => task[i] = "connecting" /\ epoch < MaxEpoch
        /\ released => task[i] = "teardown"
        /\ epoch' = IF opened THEN epoch + 1 ELSE epoch
        /\ open' = IF opened THEN open \cup {epoch + 1}
                   ELSE SessionsAfterDisconnect(released)
    /\ seeded' = NoSeed
    /\ waited' = 0
    /\ UNCHANGED << stop_call, disc_pc, subscribed, pending, held,
                    ever_connected, updated,
                    call, all_data, response,
                    health >>

(***************************************************************************)
(* stop()                                                                  *)
(***************************************************************************)
\* stop() on a client that is not running: "Client is not running."
StopNotRunning ==
    /\ NoUpdateReady
    /\ stop_call.pc = "idle"
    /\ ~client.running
    /\ UNCHANGED vars

stop_client(c) == [ c EXCEPT !.running = FALSE ]

\* The task stop() cancels and awaits: self._connection_task, unless None.
\* cancel() on a task that has finished does nothing.
CancelledBy(c) ==
    IF c.connection_task # NoTask /\ task[c.connection_task] # "ended"
    THEN {c.connection_task} ELSE {}

\* stop() clears the running flag, cancels the supervisory task and awaits it.
StopBegin ==
    /\ NoUpdateReady
    /\ stop_call.pc = "idle"
    /\ client.running
    /\ client' = stop_client(client)
    /\ cancel_req' = cancel_req \cup CancelledBy(client)
    /\ stop_call' =
         IF CancelledBy(client) # {}
         THEN [ pc |-> "await_task", task |-> client.connection_task ]
         ELSE [ pc |-> AfterDisconnectCall(client, "disconnecting", "idle"),
                task |-> NoTask ]
    /\ seeded' = NoSeed
    /\ UNCHANGED << task, disc_pc, epoch, open, subscribed, pending, held,
                    ever_connected, updated,
                    call, all_data, response,
                    health, waited >>

\* The awaited task has finished: stop() calls disconnect().
StopTaskDone ==
    /\ NoUpdateReady
    /\ stop_call.pc = "await_task"
    /\ task[stop_call.task] = "ended"
    /\ stop_call' = [ pc |-> AfterDisconnectCall(client, "disconnecting", "idle"),
                      task |-> NoTask ]
    /\ UNCHANGED << client, task, cancel_req, disc_pc, epoch, open, subscribed,
                    pending, held, ever_connected, updated,
                    seeded, call, all_data, response,
                    health, waited >>

\* client.disconnect() returns or raises in stop()'s disconnect(): the
\* finally clause runs and stop() returns.
StopDisconnectDone ==
    /\ EventLoopIdle
    /\ stop_call.pc = "disconnecting"
    /\ \E released \in BOOLEAN : open' = SessionsAfterDisconnect(released)
    /\ client' = disconnect_finally(client)
    /\ stop_call' = [ pc |-> "idle", task |-> NoTask ]
    /\ seeded' = NoSeed
    /\ UNCHANGED << task, cancel_req, disc_pc, epoch, subscribed, pending,
                    held, ever_connected, updated,
                    call, all_data, response,
                    health, waited >>

(***************************************************************************)
(* disconnect() called directly by another task.                           *)
(***************************************************************************)
\* disconnect() on a client that is not connected does nothing.
DisconnectNotConnected ==
    /\ NoUpdateReady
    /\ disc_pc = "idle"
    /\ ~IsConnected(client)
    /\ UNCHANGED vars

DisconnectBegin ==
    /\ NoUpdateReady
    /\ disc_pc = "idle"
    /\ IsConnected(client)
    /\ disc_pc' = "disconnecting"
    /\ UNCHANGED << client, task, cancel_req, stop_call, epoch, open,
                    subscribed, pending, held, ever_connected, updated,
                    seeded, call, all_data, response,
                    health, waited >>

DisconnectDone ==
    /\ EventLoopIdle
    /\ disc_pc = "disconnecting"
    /\ \E released \in BOOLEAN : open' = SessionsAfterDisconnect(released)
    /\ client' = disconnect_finally(client)
    /\ disc_pc' = "idle"
    /\ seeded' = NoSeed
    /\ UNCHANGED << task, cancel_req, stop_call, epoch, subscribed, pending,
                    held, ever_connected, updated,
                    call, all_data, response,
                    health, waited >>

\* client.disconnect() returns in a direct disconnect() whose resumption was
\* made ready before the update tasks that wait: the finally clause runs
\* ahead of them.
DisconnectDoneAhead ==
    /\ cancel_req = {}
    /\ pending # << >>
    /\ disc_pc = "disconnecting"
    /\ \E released \in BOOLEAN : open' = SessionsAfterDisconnect(released)
    /\ client' = disconnect_finally(client)
    /\ disc_pc' = "idle"
    /\ seeded' = NoSeed
    /\ UNCHANGED << task, cancel_req, stop_call, epoch, subscribed, pending,
                    held, ever_connected, updated,
                    call, all_data, response,
                    health, waited >>

(***************************************************************************)
(* The transport.                                                          *)
(***************************************************************************)
\* The server or the network drops a session.  No code of the client runs.
TransportDrop ==
    /\ EventLoopIdle
    /\ \E e \in open : open' = open \ {e}
    /\ UNCHANGED << client, task, cancel_req, stop_call, disc_pc, epoch,
                    subscribed, pending, held, ever_connected, updated,
                    seeded, call, all_data, response,
                    health, waited >>

(***************************************************************************)
(* SubscriptionHandler.datachange_notification: the transport calls it for *)
(* a monitored node of an open session; it creates an update task.         *)
(***************************************************************************)
datachange_notification(queue, node, data_value, session) ==
    Append(queue, [ node |-> node, data_value |-> data_value, session |-> session ])

Notify ==
    /\ cancel_req = {}
    /\ Len(pending) < MaxPending
    /\ \E e \in open \cap subscribed, n \in Range(nodes_to_subscribe), k \in Values :
         pending' = datachange_notification(pending, n, DataValue(k), e)
    /\ UNCHANGED << client, task, cancel_req, stop_call, disc_pc, epoch, open,
                    subscribed, held, ever_connected, updated,
                    seeded, call, all_data, response,
                    health, waited >>

\* One publish response carries two data changes: the transport calls
\* datachange_notification for the first and then for the second, and each
\* call creates its update task before any task runs.
NotifyBurst ==
    /\ cancel_req = {}
    /\ pending = << >>
    /\ \E e \in open \cap subscribed :
       \E n1 \in Range(nodes_to_subscribe), n2 \in Range(nodes_to_subscribe) :
       \E k1 \in Values, k2 \in Values :
         pending' = datachange_notification(
                        datachange_notification(pending, n1, DataValue(k1), e),
                        n2, DataValue(k2), e)
    /\ UNCHANGED << client, task, cancel_req, stop_call, disc_pc, epoch, open,
                    subscribed, held, ever_connected, updated,
                    seeded, call, all_data, response,
                    health, waited >>

\* Mutant of UpdateTaskRun: the update task created last runs first.
UpdateTaskRun_last ==
    /\ pending # << >>
    /\ client' = update_tag_value_from_node(client, pending[Len(pending)].node,
                                            pending[Len(pending)].data_value)
    /\ updated' = updated \cup Written(client, {pending[Len(pending)].node})
    /\ pending' = SubSeq(pending, 1, Len(pending) - 1)
    /\ seeded' = NoSeed
    /\ UNCHANGED << task, cancel_req, stop_call, disc_pc, epoch, open,
                    subscribed, held, ever_connected, call, all_data, response,
                    health, waited >>

\* The first update task of the ready queue runs update_tag_value_from_node.
UpdateTaskRun ==
    /\ pending # << >>
    /\ client' = update_tag_value_from_node(client, Head(pending).node,
                                            Head(pending).data_value)
    /\ updated' = updated \cup Written(client, {Head(pending).node})
    /\ pending' = Tail(pending)
    /\ seeded' = NoSeed
    /\ UNCHANGED << task, cancel_req, stop_call, disc_pc, epoch, open,
                    subscribed, held, ever_connected, call, all_data, response,
                    health, waited >>

(***************************************************************************)
(* get_all_tags() and get_tag_by_name(name).  list(dict.values()) is a new *)
(* list of the same LiveTag objects, and dict.get returns the object       *)
(* itself: the caller holds references, named here by the tag names of the *)
(* objects, and reads through them the fields the objects have when it     *)
(* looks.                                                                  *)
(***************************************************************************)
get_all_tags(c) ==
    [ query |-> "all", found |-> TRUE, refs |-> DOMAIN c.data_store ]

\* Mutant of get_tag_by_name: a missing name yields a default entry, not None.
get_tag_by_name_default(c, name) ==
    [ query |-> name, found |-> TRUE, refs |-> {name} \cap DOMAIN c.data_store ]

get_tag_by_name(c, name) ==
    IF name \in DOMAIN c.data_store
    THEN [ query |-> name, found |-> TRUE, refs |-> {name} ]
    ELSE [ query |-> name, found |-> FALSE, refs |-> {} ]    \* None

GetAllTags ==
    /\ NoUpdateReady
    /\ held' = get_all_tags(client)
    /\ UNCHANGED << client, task, cancel_req, stop_call, disc_pc, epoch, open,
                    subscribed, pending, ever_connected, updated,
                    seeded, call, all_data, response,
                    health, waited >>

GetTagByName ==
    /\ NoUpdateReady
    /\ \E name \in TagNames \cup {Unconfigured} :
         held' = get_tag_by_name(client, name)
    /\ UNCHANGED << client, task, cancel_req, stop_call, disc_pc, epoch, open,
                    subscribed, pending, ever_connected, updated,
                    seeded, call, all_data, response,
                    health, waited >>

\* What the holder of a result sees when it reads the entry of tag n.
Seen(n) == client.data_store[n]

\* The endpoint GET /api/tags/{tag_name}: it raises HTTP_404_NOT_FOUND when
\* the client's point query returns None and builds a TagData response
\* otherwise (how it builds the response is not modelled).
endpoint_get_tag_by_name(result) ==
    IF ~result.found THEN "HTTP_404_NOT_FOUND" ELSE "TagData"

(***************************************************************************)
(* The endpoint GET /api/tags.  It awaits what the client reports, a       *)
(* mapping from tag names to a ua.DataValue or None, and formats it.       *)
(***************************************************************************)
\* The status code of the entry built for a tag with no data.
StatusBad == "0x80000000"

\* A ua.DataValue as the endpoint reads it: Value.Value, SourceTimestamp,
\* ServerTimestamp, StatusCode.Value and StatusCode.name.
EndpointDataValue(k) ==
    [ Value |-> Some(k),
      SourceTimestamp |-> IF k % 2 = 1 THEN << "source", k >> ELSE None,
      ServerTimestamp |-> << "server", k >>,
      StatusCode |-> IF k % 2 = 1 THEN [ Value |-> "0x00000000", name |-> "Good" ]
                     ELSE [ Value |-> "0x40000000", name |-> "Uncertain" ] ]

\* TagData(...) built from a data value.
TagData(data_value) ==
    [ value |-> data_value.Value,
      source_timestamp |-> data_value.SourceTimestamp,
      server_timestamp |-> data_value.ServerTimestamp,
      status_code |-> data_value.StatusCode.Value,
      status_text |-> data_value.StatusCode.name ]

\* TagData(...) built for a tag that is configured but has no data yet.
NoDataTagData ==
    [ value |-> None,
      source_timestamp |-> None,
      server_timestamp |-> None,
      status_code |-> StatusBad,
      status_text |-> "NoData" ]

\* Mutant of endpoint_get_all_tags: tags with no data are left out.
endpoint_get_all_tags_skipping(data) ==
    LET with_data == { n \in DOMAIN data : data[n] # None } IN
    [ status_code |-> 200,
      tags |-> [ tag_name \in with_data |-> TagData(data[tag_name][1]) ] ]

\* The loop over all_data.items() and the AllTagsResponse returned.
endpoint_get_all_tags(data) ==
    [ status_code |-> 200,
      tags |-> [ tag_name \in DOMAIN data |->
                   IF data[tag_name] # None
                   THEN TagData(data[tag_name][1])
                   ELSE NoDataTagData ] ]

\* What the client may report: any set of the tag names, each with a data
\* value or with None.
EndpointInputs ==
    UNION { [ S -> {None} \cup { Some(EndpointDataValue(k)) : k \in Values } ] :
            S \in SUBSET TagNames }

EndpointGetAllTags ==
    /\ response' = endpoint_get_all_tags(all_data)
    /\ UNCHANGED << client, task, cancel_req, stop_call, disc_pc, epoch, open,
                    subscribed, pending, held, ever_connected, updated, seeded,
                    call, all_data, health, waited >>

(***************************************************************************)
(* start(), read_value(node_id) and write_value(node_id, value, type) made *)
(* by a caller whose calls are recorded: `call` holds the last call, where *)
(* it is suspended ("awaiting" the transport) or how it ended, how many    *)
(* transport operations it has issued, and a bit that tells one call from  *)
(* the next.                                                               *)
(***************************************************************************)
NewCall(op, node_id, pc, ops) ==
    [ op |-> op, node_id |-> node_id, pc |-> pc, ops |-> ops,
      seq |-> 1 - call.seq ]

\* The node ids the caller passes: that of a configured tag, and a malformed
\* one, for which client.get_node raises.
CallNodeIds == { opc_tags[1].node_id, opc_tags[2].node_id }

\* Mutant of start_launches: start() launches a loop whatever the flag says.
start_launches_always(c) == TRUE

\* start() goes past its test of the running flag.
start_launches(c) == ~c.running

StartCall ==
    /\ NoUpdateReady
    /\ call.pc # "awaiting"
    /\ IF start_launches(client)
       THEN \E i \in TaskIds :
              /\ task[i] = "none"
              /\ \A j \in TaskIds : j < i => task[j] # "none"
              /\ client' = start_client(client, i)
              /\ task' = [ task EXCEPT ![i] = "created" ]
              /\ call' = NewCall("start", "none", "launched", 0)
       ELSE /\ UNCHANGED << client, task >>
            /\ call' = NewCall("start", "none", "already_running", 0)
    /\ UNCHANGED << cancel_req, stop_call, disc_pc, epoch, open, subscribed,
                    pending, held, ever_connected, updated, seeded,
                    all_data, response,
                    health, waited >>

\* How far read_value and write_value get before they first suspend: the
\* test of is_connected raises ConnectionError, get_node raises for a
\* malformed node id (logged and raised again), else the call awaits the one
\* transport operation it issues.
on_demand_begin(c, node_id) ==
    IF ~IsConnected(c) THEN "ConnectionError"
    ELSE IF ~NodeResolves(node_id) THEN "raised"
    ELSE "awaiting"

\* Mutant of read_value: the value read is stored in the entry of the tag
\* configured with the node id.
read_value_cached(c, node_id, data_value) ==
    [ c EXCEPT !.data_store =
        [ n \in DOMAIN c.data_store |->
            IF c.data_store[n].node_id = node_id
            THEN AssignLiveTag(c.data_store[n], data_value)
            ELSE c.data_store[n] ] ]

\* What read_value makes of the client when node.read_value() has returned
\* the value: it logs and returns it, and assigns nothing.
read_value(c, node_id, data_value) == c

ReadValueBegin ==
    /\ NoUpdateReady
    /\ call.pc # "awaiting"
    /\ \E node_id \in CallNodeIds :
         LET pc == on_demand_begin(client, node_id) IN
         call' = NewCall("read_value", node_id, pc,
                         IF pc = "awaiting" THEN 1 ELSE 0)
    /\ UNCHANGED << client, task, cancel_req, stop_call, disc_pc, epoch, open,
                    subscribed, pending, held, ever_connected, updated, seeded,
                    all_data, response,
                    health, waited >>

\* node.read_value() returns a value of an open session, or raises.
ReadValueDone ==
    /\ EventLoopIdle
    /\ call.op = "read_value"
    /\ call.pc = "awaiting"
    /\ \/ /\ SessionAlive
          /\ \E k \in Values :
               client' = read_value(client, call.node_id, DataValue(k))
          /\ call' = [ call EXCEPT !.pc = "returned" ]
       \/ /\ client' = client
          /\ call' = [ call EXCEPT !.pc = "raised" ]
    /\ UNCHANGED << task, cancel_req, stop_call, disc_pc, epoch, open,
                    subscribed, pending, held, ever_connected, updated, seeded,
                    all_data, response,
                    health, waited >>

\* Mutant of write_value_rejected: a rejected write tears the session down.
write_value_rejected_teardown(c) == disconnect_finally(c)

\* What write_value makes of the client when node.write_value raises: it
\* logs the error and raises it again.
write_value_rejected(c) == c

WriteValueBegin ==
    /\ NoUpdateReady
    /\ call.pc # "awaiting"
    /\ \E node_id \in CallNodeIds :
         LET pc == on_demand_begin(client, node_id) IN
         call' = NewCall("write_value", node_id, pc,
                         IF pc = "awaiting" THEN 1 ELSE 0)
    /\ UNCHANGED << client, task, cancel_req, stop_call, disc_pc, epoch, open,
                    subscribed, pending, held, ever_connected, updated, seeded,
                    all_data, response,
                    health, waited >>

\* node.write_value(variant) returns, the server of an open session having
\* accepted the write, or raises.
WriteValueDone ==
    /\ EventLoopIdle
    /\ call.op = "write_value"
    /\ call.pc = "awaiting"
    /\ \/ /\ SessionAlive
          /\ client' = client
          /\ call' = [ call EXCEPT !.pc = "returned" ]
       \/ /\ client' = write_value_rejected(client)
          /\ call' = [ call EXCEPT !.pc = "raised" ]
    /\ UNCHANGED << task, cancel_req, stop_call, disc_pc, epoch, open,
                    subscribed, pending, held, ever_connected, updated, seeded,
                    all_data, response,
                    health, waited >>

\* What disconnect() makes of a client that is not connected: the test of
\* is_connected fails and the call returns.
disconnect_not_connected(c) == c

\* disconnect() called by the recorded caller on a client that is not
\* connected.
DisconnectCall ==
    /\ NoUpdateReady
    /\ call.pc # "awaiting"
    /\ disc_pc = "idle"
    /\ ~IsConnected(client)
    /\ client' = disconnect_not_connected(client)
    /\ call' = NewCall("disconnect", "none", "returned", 0)
    /\ UNCHANGED << task, cancel_req, stop_call, disc_pc, epoch, open,
                    subscribed, pending, held, ever_connected, updated, seeded,
                    all_data, response, health, waited >>

(***************************************************************************)
(* The health surface, GET /api/v1/health: it answers from the client's    *)
(* is_connected property.                                                  *)
(***************************************************************************)
health_check(connected) ==
    IF connected
    THEN [ status_code |-> 200, status |-> "ok", opcua_connected |-> TRUE ]
    ELSE [ status_code |-> 503, status |-> "error", opcua_connected |-> FALSE ]

\* A health request is answered.  The handler does not await: it runs
\* between two steps of the other tasks.
HealthCheck ==
    /\ health' = health_check(IsConnected(client))
    /\ UNCHANGED << client, task, cancel_req, stop_call, disc_pc, epoch, open,
                    subscribed, pending, held, ever_connected, updated, seeded,
                    call, all_data, response, waited >>

(***************************************************************************)
(* The specification.                                                      *)
(***************************************************************************)
Next ==
    \/ StartAlreadyRunning
    \/ Start
    \/ \E i \in TaskIds : MgrIterate(i)
    \/ \E i \in TaskIds : ConnectOk(i)
    \/ \E i \in TaskIds : ConnectFail(i)
    \/ \E i \in TaskIds : CreateSubOk(i)
    \/ \E i \in TaskIds : CreateSubFail(i)
    \/ \E i \in TaskIds : SubscribeOk(i)
    \/ \E i \in TaskIds : SubscribeFail(i)
    \/ \E i \in TaskIds : ReadValuesOk(i)
    \/ \E i \in TaskIds : BulkReadFail(i)
    \/ \E i \in TaskIds : ReadDataValuesOk(i)
    \/ \E i \in TaskIds : TeardownDone(i)
    \/ \E i \in TaskIds : ManagerCancelled(i)
    \/ StopNotRunning
    \/ StopBegin
    \/ StopTaskDone
    \/ StopDisconnectDone
    \/ DisconnectNotConnected
    \/ DisconnectBegin
    \/ DisconnectDone
    \/ TransportDrop
    \/ Notify
    \/ UpdateTaskRun
    \/ GetAllTags
    \/ GetTagByName

Spec == Init /\ [][Next]_vars

\* The client with a caller of start(), read_value() and write_value() whose
\* calls are recorded, next to the supervisory loop, stop(), disconnect()
\* and the transport.
NextCalls ==
    \/ StartCall
    \/ ReadValueBegin
    \/ ReadValueDone
    \/ WriteValueBegin
    \/ WriteValueDone
    \/ \E i \in TaskIds : MgrIterate(i)
    \/ \E i \in TaskIds : ConnectOk(i)
    \/ \E i \in TaskIds : ConnectFail(i)
    \/ \E i \in TaskIds : CreateSubOk(i)
    \/ \E i \in TaskIds : CreateSubFail(i)
    \/ \E i \in TaskIds : SubscribeOk(i)
    \/ \E i \in TaskIds : SubscribeFail(i)
    \/ \E i \in TaskIds : ReadValuesOk(i)
    \/ \E i \in TaskIds : BulkReadFail(i)
    \/ \E i \in TaskIds : ReadDataValuesOk(i)
    \/ \E i \in TaskIds : TeardownDone(i)
    \/ \E i \in TaskIds : ManagerCancelled(i)
    \/ StopNotRunning
    \/ StopBegin
    \/ StopTaskDone
    \/ StopDisconnectDone
    \/ DisconnectNotConnected
    \/ DisconnectBegin
    \/ DisconnectDone
    \/ TransportDrop

CallsSpec == Init /\ [][NextCalls]_vars

\* The client with the health surface, next to the supervisory loop,
\* start(), stop(), disconnect() and the transport.
NextHealth ==
    \/ HealthCheck
    \/ Start
    \/ \E i \in TaskIds : MgrIterate(i)
    \/ \E i \in TaskIds : ConnectOk(i)
    \/ \E i \in TaskIds : ConnectFail(i)
    \/ \E i \in TaskIds : CreateSubOk(i)
    \/ \E i \in TaskIds : CreateSubFail(i)
    \/ \E i \in TaskIds : SubscribeOk(i)
    \/ \E i \in TaskIds : SubscribeFail(i)
    \/ \E i \in TaskIds : ReadValuesOk(i)
    \/ \E i \in TaskIds : BulkReadFail(i)
    \/ \E i \in TaskIds : ReadDataValuesOk(i)
    \/ \E i \in TaskIds : TeardownDone(i)
    \/ \E i \in TaskIds : ManagerCancelled(i)
    \/ StopNotRunning
    \/ StopBegin
    \/ StopTaskDone
    \/ StopDisconnectDone
    \/ DisconnectNotConnected
    \/ DisconnectBegin
    \/ DisconnectDone
    \/ TransportDrop

HealthSpec == Init /\ [][NextHealth]_vars

\* The endpoint GET /api/tags on every input the client may report.
InitEndpoint ==
    /\ client = InitialClient
    /\ task = [ i \in TaskIds |-> "none" ]
    /\ cancel_req = {}
    /\ stop_call = [ pc |-> "idle", task |-> NoTask ]
    /\ disc_pc = "idle"
    /\ epoch = 0
    /\ open = {}
    /\ subscribed = {}
    /\ pending = << >>
    /\ held = NoResult
    /\ ever_connected = FALSE
    /\ updated = {}
    /\ seeded = NoSeed
    /\ call = NoCall
    /\ all_data \in EndpointInputs
    /\ response = NoResponse
    /\ health = NoHealth
    /\ waited = 0

NextEndpoint == EndpointGetAllTags

EndpointSpec == InitEndpoint /\ [][NextEndpoint]_vars

(***************************************************************************)
(* Scheduling.  The event loop runs every task that is ready, fires every  *)
(* timer that is due, and the transport completes every call one way or    *)
(* the other: a step of a supervisory task that stays possible is taken,   *)
(* and so are the run of an update task and the resumption of a caller of  *)
(* stop() or disconnect().                                                 *)
(***************************************************************************)
ManagerStep(i) ==
    \/ MgrIterate(i)
    \/ ConnectOk(i)
    \/ ConnectFail(i)
    \/ CreateSubOk(i)
    \/ CreateSubFail(i)
    \/ SubscribeOk(i)
    \/ SubscribeFail(i)
    \/ ReadValuesOk(i)
    \/ BulkReadFail(i)
    \/ ReadDataValuesOk(i)
    \/ TeardownDone(i)
    \/ ManagerCancelled(i)

FairSpec ==
    /\ Spec
    /\ \A i \in TaskIds : WF_vars(ManagerStep(i))
    /\ WF_vars(UpdateTaskRun)
    /\ WF_vars(StopTaskDone)
    /\ WF_vars(StopDisconnectDone)
    /\ WF_vars(DisconnectDone)

\* The client when stop() is never called: start(), the supervisory loop,
\* direct disconnect() calls and the transport, under the same scheduling.
NextRetry ==
    \/ Start
    \/ \E i \in TaskIds : MgrIterate(i)
    \/ \E i \in TaskIds : ConnectOk(i)
    \/ \E i \in TaskIds : ConnectFail(i)
    \/ \E i \in TaskIds : CreateSubOk(i)
    \/ \E i \in TaskIds : CreateSubFail(i)
    \/ \E i \in TaskIds : SubscribeOk(i)
    \/ \E i \in TaskIds : SubscribeFail(i)
    \/ \E i \in TaskIds : ReadValuesOk(i)
    \/ \E i \in TaskIds : BulkReadFail(i)
    \/ \E i \in TaskIds : ReadDataValuesOk(i)
    \/ \E i \in TaskIds : TeardownDone(i)
    \/ DisconnectNotConnected
    \/ DisconnectBegin
    \/ DisconnectDone
    \/ TransportDrop

RetrySpec ==
    /\ Init /\ [][NextRetry]_vars
    /\ \A i \in TaskIds : WF_vars(ManagerStep(i))
    /\ WF_vars(DisconnectDone)

\* The client while its sessions are set up and the transport delivers
\* notifications one by one and two at a time.
NextOrder ==
    \/ Start
    \/ \E i \in TaskIds : MgrIterate(i)
    \/ \E i \in TaskIds : ConnectOk(i)
    \/ \E i \in TaskIds : CreateSubOk(i)
    \/ \E i \in TaskIds : SubscribeOk(i)
    \/ \E i \in TaskIds : ReadValuesOk(i)
    \/ \E i \in TaskIds : BulkReadFail(i)
    \/ \E i \in TaskIds : ReadDataValuesOk(i)
    \/ Notify
    \/ NotifyBurst
    \/ UpdateTaskRun

OrderSpec == Init /\ [][NextOrder]_vars

\* The client while notifications arrive and direct disconnect() calls tear
\* the session down, before or after the update tasks that wait have run.
NextTeardown ==
    \/ Start
    \/ \E i \in TaskIds : MgrIterate(i)
    \/ \E i \in TaskIds : ConnectOk(i)
    \/ \E i \in TaskIds : CreateSubOk(i)
    \/ \E i \in TaskIds : SubscribeOk(i)
    \/ \E i \in TaskIds : ReadValuesOk(i)
    \/ \E i \in TaskIds : BulkReadFail(i)
    \/ \E i \in TaskIds : ReadDataValuesOk(i)
    \/ Notify
    \/ UpdateTaskRun
    \/ DisconnectBegin
    \/ DisconnectDone
    \/ DisconnectDoneAhead

TeardownSpec == Init /\ [][NextTeardown]_vars

\* The client with a caller of disconnect() whose calls on a client that is
\* not connected are recorded, next to the supervisory loop, start(),
\* stop(), disconnect() on a connected client and the transport.
NextDisconnect ==
    \/ DisconnectCall
    \/ DisconnectBegin
    \/ DisconnectDone
    \/ Start
    \/ \E i \in TaskIds : MgrIterate(i)
    \/ \E i \in TaskIds : ConnectOk(i)
    \/ \E i \in TaskIds : ConnectFail(i)
    \/ \E i \in TaskIds : CreateSubOk(i)
    \/ \E i \in TaskIds : CreateSubFail(i)
    \/ \E i \in TaskIds : SubscribeOk(i)
    \/ \E i \in TaskIds : SubscribeFail(i)
    \/ \E i \in TaskIds : ReadValuesOk(i)
    \/ \E i \in TaskIds : BulkReadFail(i)
    \/ \E i \in TaskIds : ReadDataValuesOk(i)
    \/ \E i \in TaskIds : TeardownDone(i)
    \/ \E i \in TaskIds : ManagerCancelled(i)
    \/ StopBegin
    \/ StopTaskDone
    \/ StopDisconnectDone
    \/ TransportDrop

DisconnectSpec == Init /\ [][NextDisconnect]_vars

(***************************************************************************)
(* Properties.                                                             *)
(***************************************************************************)
\* An update task is at the head of the ready queue and this step runs it.
UpdateRuns == pending # << >> /\ pending' = Tail(pending)

\* The entry is the one the constructor made.
IsInitialEntry(e) == e.value = None /\ e.status = "Uncertain" /\ e.timestamp = utcnow

\* The entry's value, status and timestamp are those of the one data value k.
IsEntryOf(e, k) ==
    /\ e.value = DataValue(k).Value
    /\ e.status = DataValue(k).StatusCode
    /\ e.timestamp = IF DataValue(k).SourceTimestamp # None
                     THEN DataValue(k).SourceTimestamp ELSE utcnow

\* C1: in every reachable state the key set of the data store, and of what
\* get_all_tags returned, is exactly the set of configured tag names.
C1_KeySetFixed ==
    /\ DOMAIN client.data_store = TagNames
    /\ held.query = "all" => held.refs = TagNames

\* C1 witness: after a start, a stop, a second session, a seed or a
\* notification and a teardown, a reader has fetched all tags.
C1_Witness ==
    /\ held.query = "all"
    /\ epoch = 2
    /\ updated # {}
    /\ \E i \in TaskIds : task[i] = "ended"
    /\ stop_call.pc = "idle"
    /\ ~client.is_connected

\* C2 (as claimed): every teardown, the step in which is_connected goes from
\* true to false, leaves every entry with no value and the no-data quality.
\* The status "Uncertain" the constructor writes is accepted as no-data here,
\* so that only a value that survives the teardown violates the formula.
C2_TeardownResetsCache ==
    [][ (client.is_connected /\ ~client'.is_connected) =>
            \A n \in DOMAIN client'.data_store :
                /\ client'.data_store[n].value = None
                /\ client'.data_store[n].status \in {"NoData", "Uncertain"} ]_vars

\* C3: every entry of the data store, and every entry a reader sees through
\* the result it holds, has a value, a status and a timestamp that come from
\* one update (or from the constructor), also while an update is in flight.
C3_TripleFromOneUpdate ==
    /\ \A n \in DOMAIN client.data_store :
         \/ IsInitialEntry(client.data_store[n])
         \/ \E k \in Values : IsEntryOf(client.data_store[n], k)
    /\ \A n \in held.refs :
         \/ IsInitialEntry(Seen(n))
         \/ \E k \in Values : IsEntryOf(Seen(n), k)

\* C3 witness: a reader holds the result of get_all_tags, an entry has been
\* written, and an update with another value for that entry is in flight.
C3_Witness ==
    /\ held.query = "all"
    /\ pending # << >>
    /\ Head(pending).node \in DOMAIN client.node_map
    /\ LET n == client.node_map[Head(pending).node] IN
         /\ n \in updated
         /\ Seen(n).value # Head(pending).data_value.Value

\* C4 (as claimed): while a caller holds the result of get_all_tags or of
\* get_tag_by_name, no step changes an entry it sees in that result.
C4_SnapshotImmutable ==
    [][ held' = held =>
            \A n \in held.refs : client'.data_store[n] = client.data_store[n] ]_vars

\* C5: an update task for a node that is not in the node map changes nothing
\* of the client, the data store included, and returns without an error.
C5_UnmappedNotificationIgnored ==
    [][ (UpdateRuns /\ Head(pending).node \notin DOMAIN client.node_map) =>
            /\ client' = client
            /\ update_outcome(client, Head(pending).node,
                              Head(pending).data_value) = "returned_unmapped" ]_vars

\* C5 witness: an update task for an unmapped node is about to run while the
\* cache holds data that it could overwrite.
C5_Witness ==
    /\ pending # << >>
    /\ Head(pending).node \notin DOMAIN client.node_map
    /\ updated # {}

\* C6 (as claimed): an update task of a notification that a superseded
\* session produced (not the session the node map was built in) does not
\* change the data store.
C6_SupersededSessionIgnored ==
    [][ (UpdateRuns /\ Head(pending).session # client.subscription) =>
            client'.data_store = client.data_store ]_vars

\* The not-found half of C7, and what the endpoint makes of it.
C7_NotFoundForUnconfigured ==
    held.query \notin TagNames \cup {"none", "all"} =>
        ~held.found /\ endpoint_get_tag_by_name(held) = "HTTP_404_NOT_FOUND"

C9_ConnectedOnlyWhenSubscribed ==
    IsConnected(client) =>
        /\ SessionAlive
        /\ client.subscription = epoch
        /\ epoch \in subscribed

\* C10 (as claimed): when stop() returns, the task it awaited has ended,
\* is_connected is false and no transport session is open.
C10_StopReleasesEverything ==
    [][ (stop_call.pc # "idle" /\ stop_call'.pc = "idle") =>
            /\ stop_call.task # NoTask => task'[stop_call.task] = "ended"
            /\ ~IsConnected(client')
            /\ open' = {} ]_vars

\* A step in which a stop() call that went past its running test returns.
StopReturns == stop_call.pc # "idle" /\ stop_call'.pc = "idle"

\* C11 (as claimed): when stop() returns, the subscription reference is
\* cleared and the node map is empty.
C11_StopClearsSubscription ==
    [][ StopReturns =>
            /\ client'.subscription = NoSubscription
            /\ client'.node_map = EmptyMap ]_vars

\* The entry is what the three assignments make of the data value.
IsEntryOfDataValue(e, data_value) ==
    /\ e.value = data_value.Value
    /\ e.status = data_value.StatusCode
    /\ e.timestamp = IF data_value.SourceTimestamp # None
                     THEN data_value.SourceTimestamp ELSE utcnow

\* The setup of the session the client holds has completed with a bulk read,
\* and no notification has been applied since.
SetupCompleted ==
    /\ seeded # NoSeed
    /\ seeded.session = client.subscription

\* C18: when the setup of a session has completed with a successful bulk
\* read and no notification has been applied yet, the entry of every resolved
\* tag is the data value the bulk read returned for that tag's node.
C18_SeedEqualsBulkRead ==
    SetupCompleted =>
        \A j \in 1..Len(nodes_to_subscribe) :
            /\ nodes_to_subscribe[j] \in DOMAIN client.node_map
            /\ IsEntryOfDataValue(
                   client.data_store[client.node_map[nodes_to_subscribe[j]]],
                   seeded.data_values[j])

\* C18 witness: the setup of the second session has completed with a bulk
\* read that returned different data for the two resolved tags, over entries
\* the first session had written.
C18_Witness ==
    /\ SetupCompleted
    /\ seeded.session = 2
    /\ seeded.data_values[1] # seeded.data_values[2]
    /\ \E i \in TaskIds : task[i] = "sleeping"

\* C17: an update task for a node that the node map maps to tag T sets T's
\* entry to the value, status and timestamp of the notification's data value
\* and leaves every other entry unchanged.
C17_MappedNotificationApplied ==
    [][ (UpdateRuns /\ Head(pending).node \in DOMAIN client.node_map) =>
            LET T == client.node_map[Head(pending).node] IN
            /\ DOMAIN client'.data_store = DOMAIN client.data_store
            /\ IsEntryOfDataValue(client'.data_store[T], Head(pending).data_value)
            /\ \A n \in DOMAIN client.data_store \ {T} :
                   client'.data_store[n] = client.data_store[n] ]_vars

\* C17 witness: in a subscribed session, after notifications have been
\* applied and with none in flight, a reader of all tags sees A with the
\* value 1 and B with the value 2.
C17_Witness ==
    /\ held.query = "all"
    /\ pending = << >>
    /\ seeded = NoSeed
    /\ client.subscription = epoch
    /\ epoch \in subscribed
    /\ updated = {"A", "B"}
    /\ Seen("A").value = Some(1)
    /\ Seen("B").value = Some(2)

\* The client is in SubscriptionActive: connected, with the subscription of
\* its session created and the nodes monitored.
SubscriptionActive ==
    /\ IsConnected(client)
    /\ client.subscription = epoch
    /\ epoch \in subscribed

\* The transport session has failed while the client was in
\* SubscriptionActive, and stop() has not been called.
SessionLostWhileActive ==
    /\ SubscriptionActive
    /\ ~SessionAlive
    /\ client.running
    /\ stop_call.pc = "idle"

\* C13 (as claimed): once the transport session has failed in
\* SubscriptionActive, is_connected eventually becomes false (the teardown
\* that precedes a new connect), unless stop() is called.
C13_TransportLossReconnects ==
    SessionLostWhileActive ~> (~IsConnected(client) \/ ~client.running)

\* C19 (as claimed): at most one transport session is open at any time.
C19_AtMostOneSession == Cardinality(open) <= 1

\* The supervisory loop tasks that exist: created, neither finished nor
\* cancelled.
LoopTasks == { i \in TaskIds : task[i] \notin {"none", "ended"} /\ Live(i) }

\* A step in which the recorded caller makes a call of op.
Calls(op) == call.pc # "awaiting" /\ call' # call /\ call'.op = op

\* C12: start() on a client that is running changes nothing of the client
\* and launches no task, and exactly one supervisory loop task exists after
\* it.
C12_StartIdempotentWhileRunning ==
    [][ (Calls("start") /\ client.running) =>
            /\ call'.pc = "already_running"
            /\ client' = client
            /\ task' = task
            /\ cancel_req' = cancel_req
            /\ LoopTasks' = {client.connection_task} ]_vars

\* C12 witness: start() has been called again on a running client whose
\* loop is in the sleep that follows a completed setup.
C12_Witness ==
    /\ call.op = "start"
    /\ call.pc = "already_running"
    /\ client.running
    /\ SubscriptionActive
    /\ \E i \in TaskIds : task[i] = "sleeping"

\* C14 (as claimed): a read_value or write_value call made while the client
\* is not in SubscriptionActive ends with the not-connected error and issues
\* no transport operation.
C14_OnDemandOnlyWhenActive ==
    [][ ((Calls("read_value") \/ Calls("write_value")) /\ ~SubscriptionActive) =>
            /\ call'.pc = "ConnectionError"
            /\ call'.ops = 0 ]_vars

\* C15: no step of a read_value call, whether it is rejected as not
\* connected, fails on the transport or returns the value, changes the data
\* store, the node map, the subscription or the connection flag.
C15_ReadValueLeavesClient ==
    [][ (call' # call /\ call'.op = "read_value") =>
            /\ client'.data_store = client.data_store
            /\ client'.node_map = client.node_map
            /\ client'.subscription = client.subscription
            /\ client'.is_connected = client.is_connected ]_vars

\* C15 witness: a read_value of the node id of configured tag A has returned
\* a value while the cache holds data for A.
C15_Witness ==
    /\ call.op = "read_value"
    /\ call.pc = "returned"
    /\ call.node_id = opc_tags[1].node_id
    /\ opc_tags[1].name \in updated
    /\ SubscriptionActive

\* C16: a write_value call issues at most one transport write, and the step
\* in which the write is rejected raises the error to the caller without
\* another write and leaves the client, the supervisory tasks and the
\* pending cancellations unchanged.
C16_WriteOnceNoTeardown ==
    [][ (call' # call /\ call'.op = "write_value") =>
            /\ call'.ops <= 1
            /\ (call.pc = "awaiting" /\ call'.pc = "raised") =>
                 /\ call'.ops = call.ops
                 /\ client' = client
                 /\ task' = task
                 /\ cancel_req' = cancel_req ]_vars

\* C16 witness: the server of an open, subscribed session has rejected a
\* write, and the loop is still in its sleep.
C16_Witness ==
    /\ call.op = "write_value"
    /\ call.pc = "raised"
    /\ call.ops = 1
    /\ SubscriptionActive
    /\ SessionAlive
    /\ \E i \in TaskIds : task[i] = "sleeping"

C20_EmptyWitness ==
    /\ DOMAIN all_data = {}
    /\ response.status_code = 200
    /\ DOMAIN response.tags = {}

\* C30 (as claimed): in every reachable state, is_connected false implies
\* that the node map is empty and the subscription reference is cleared.
C30_DisconnectedMeansCleared ==
    ~IsConnected(client) =>
        /\ client.node_map = EmptyMap
        /\ client.subscription = NoSubscription

\* C22: a supervisory task ends only in a step in which a stop() has cleared
\* the running flag or cancelled it; no failure of connect, of the
\* subscription setup, of the bulk read or of disconnect ends it.
C22_LoopEndsOnlyByStop ==
    [][ \A i \in TaskIds :
          (task[i] # "ended" /\ task'[i] = "ended") =>
              (i \in cancel_req \/ ~client.running) ]_vars

\* C22 witness: after a failed attempt, a session that was torn down and a
\* second session whose bulk read failed, the supervisory task sleeps before
\* its next iteration, and no stop() has been called.
C22_Witness ==
    /\ client.running
    /\ stop_call.pc = "idle"
    /\ cancel_req = {}
    /\ epoch = 2
    /\ open = {}
    /\ \E i \in TaskIds : task[i] = "sleeping"
    /\ \A i \in TaskIds : task[i] # "ended"

\* A supervisory task has subscribed and awaits its bulk read: the seed of
\* its session is not written yet.
SeedPending == \E i \in TaskIds : task[i] \in {"read_values", "read_data_values"}

\* C25 (as claimed): no notification of the session the client holds is
\* applied to a tag before the seed of that session has been written.
C25_SeedBeforeNotifications ==
    [][ (/\ UpdateRuns
         /\ Head(pending).session = client.subscription
         /\ Head(pending).node \in DOMAIN client.node_map) =>
            ~SeedPending ]_vars

\* The node map that the resolution of the configured tags builds.
ResolvedNodeMap ==
    ResolveTags(opc_tags, [nodes |-> << >>, node_map |-> EmptyMap]).node_map

\* C28 (as claimed): in every reachable state the node map is empty, or it
\* is the complete map of the handles resolved in the session the transport
\* opened last.
C28_NodeMapEmptyOrCurrent ==
    \/ client.node_map = EmptyMap
    \/ /\ client.node_map = ResolvedNodeMap
       /\ client.subscription = epoch

\* The configured tags whose node id client.get_node resolves.
ResolvingTags == { t \in Range(opc_tags) : NodeResolves(t.node_id) }

\* A step in which the setup of task i stores the subscription, leaves the
\* loop over the configured tags and goes on to subscribe.
ResolutionStep(i) == task[i] = "creating_sub" /\ task'[i] = "subscribing"

\* C27: the loop over the configured tags skips a tag whose node id fails to
\* resolve and enters every tag that resolves, before or after it, in the
\* node map, without changing is_connected; and when the setup has completed
\* with a bulk read, every resolving tag is among the subscribed nodes and
\* its entry holds the data value read for its node.
C27_UnresolvableTagSkipped ==
    /\ [][ \A i \in TaskIds :
             ResolutionStep(i) =>
                 /\ client'.is_connected = client.is_connected
                 /\ \A t \in ResolvingTags :
                        /\ t.node_id \in DOMAIN client'.node_map
                        /\ client'.node_map[t.node_id] = t.name
                 /\ \A t \in Range(opc_tags) \ ResolvingTags :
                        t.node_id \notin DOMAIN client'.node_map ]_vars
    /\ [] ( SetupCompleted =>
              \A t \in ResolvingTags :
                  \E j \in 1..Len(nodes_to_subscribe) :
                      /\ nodes_to_subscribe[j] = t.node_id
                      /\ IsEntryOfDataValue(client.data_store[t.name],
                                            seeded.data_values[j]) )

\* C27 witness: the setup has completed on a connected client; the tags
\* before and after the malformed one are mapped and seeded, and the entry of
\* the malformed one is still the initial entry.
C27_Witness ==
    /\ SetupCompleted
    /\ IsConnected(client)
    /\ epoch \in subscribed
    /\ DOMAIN client.node_map = {"addr1", "addr2"}
    /\ client.data_store["A"].status = "Good"
    /\ client.data_store["B"].status = "Good"
    /\ client.data_store["X"] = InitialLiveTag(opc_tags[2])

C24_FixedBackoffBetweenAttempts ==
    [][ \A i \in TaskIds :
          /\ (task[i] # "connecting" /\ task'[i] = "connecting") =>
                \/ task[i] = "created" /\ waited' = 0
                \/ /\ task[i] = "sleeping"
                   /\ waited' = RECONNECT_INTERVAL_SECONDS
          /\ (task[i] # "created" /\ task'[i] = "created") =>
                task[i] = "none" ]_vars

\* C24 witness: a connect attempt is in progress after a sleep of the
\* interval, the second session having been torn down: the attempts before
\* it failed or lost their session.
C24_Witness ==
    /\ \E i \in TaskIds : task[i] = "connecting" /\ Live(i)
    /\ waited = RECONNECT_INTERVAL_SECONDS
    /\ epoch = 2
    /\ ~IsConnected(client)

\* A step in which connect or the subscription setup fails, the transport
\* loses a session, or a direct disconnect() call acts.
Disturbance ==
    \/ \E i \in TaskIds : ConnectFail(i)
    \/ \E i \in TaskIds : CreateSubFail(i)
    \/ \E i \in TaskIds : SubscribeFail(i)
    \/ TransportDrop
    \/ DisconnectBegin
    \/ DisconnectDone

\* The client is connected to a session the transport holds open, with the
\* subscription of that session created and its nodes monitored.
ConnectedWithSubscription == SubscriptionActive /\ SessionAlive

\* A connect attempt of the supervisory task has failed, or its session is
\* being torn down after a failed setup.
AttemptFailed ==
    \E i \in TaskIds :
        \/ task[i] = "teardown"
        \/ task[i] = "sleeping" /\ ~IsConnected(client)

\* C23: when stop() is never called, a started client whose connect and
\* subscription setup succeed from some point on (no failure, no transport
\* loss and no direct disconnect() after that point) eventually is connected
\* with an active subscription; and after any failed attempt another
\* connect attempt eventually follows.
C23_RetryLoopLiveness ==
    /\ (<>client.running /\ <>[][~Disturbance]_vars)
           => <>ConnectedWithSubscription
    /\ AttemptFailed ~> (\E i \in TaskIds : task[i] = "connecting")

\* C23 witness: the client is connected with an active subscription in its
\* second session, the first attempt having failed after its connect.
C23_Witness ==
    /\ ConnectedWithSubscription
    /\ epoch = 2
    /\ client.running

\* The ready queue without its j-th update task.
WithoutTask(queue, j) ==
    SubSeq(queue, 1, j - 1) \o SubSeq(queue, j + 1, Len(queue))

\* C26: the update task that runs is, among the waiting update tasks of its
\* node, the one whose notification the transport delivered first, and when
\* the node is mapped the tag's entry becomes the data value of that
\* notification: the updates of one node are written in the order of
\* delivery, and the entry finally holds the value delivered last.
C26_PerTagOrder ==
    [][ Len(pending') = Len(pending) - 1 =>
          \E j \in 1..Len(pending) :
              /\ pending' = WithoutTask(pending, j)
              /\ \A k \in 1..(j - 1) : pending[k].node # pending[j].node
              /\ pending[j].node \in DOMAIN client.node_map =>
                    IsEntryOfDataValue(
                        client'.data_store[client.node_map[pending[j].node]],
                        pending[j].data_value) ]_vars

\* C26 witness: two notifications of the same mapped node with different
\* data values have been delivered and their update tasks wait, while the
\* tag's entry holds the value of neither.
C26_Witness ==
    /\ Len(pending) = 2
    /\ pending[1].node = pending[2].node
    /\ pending[1].data_value # pending[2].data_value
    /\ pending[1].node \in DOMAIN client.node_map
    /\ client.data_store[client.node_map[pending[1].node]].value = None

(***************************************************************************)
(* The accesses to _data_store and _node_map that each operation makes:    *)
(* which structure, read or write, whether inside `async with self._lock`, *)
(* and whether the access replaces the whole structure by one assignment.  *)
(***************************************************************************)
Access(structure, kind, lock_held, replaces) ==
    [ structure |-> structure, kind |-> kind,
      lock_held |-> lock_held, replaces |-> replaces ]

\* update_tag_value_from_node: the lookup in _node_map before the lock is
\* taken, then the membership test and the assignments under the lock.
update_accesses(c, node) ==
    { Access("node_map", "read", FALSE, FALSE) }
        \cup (IF node \in DOMAIN c.node_map
              THEN { Access("data_store", "read", TRUE, FALSE) }
                       \cup (IF c.node_map[node] \in DOMAIN c.data_store
                             THEN { Access("data_store", "write", TRUE, FALSE) }
                             ELSE {})
              ELSE {})

\* _initialize_subscriptions: one assignment self._node_map[node] = name per
\* resolving tag, into the dict that is there.
initialize_subscriptions_accesses ==
    { Access("node_map", "write", FALSE, FALSE) : t \in ResolvingTags }

\* disconnect(): self._node_map = {} in the finally clause.
disconnect_accesses == { Access("node_map", "write", FALSE, TRUE) }

\* get_all_tags() and get_tag_by_name(): the read under the lock.
reader_accesses == { Access("data_store", "read", TRUE, FALSE) }

\* The accesses made in a step.
StepAccesses ==
    (IF UpdateRuns
     THEN update_accesses(client, Head(pending).node) ELSE {})
    \cup (IF \E i \in TaskIds : ResolutionStep(i)
          THEN initialize_subscriptions_accesses ELSE {})
    \cup (IF \E i \in TaskIds :
               task[i] = "read_data_values" /\ task'[i] = "sleeping"
                   /\ seeded' # NoSeed
          THEN UNION { update_accesses(client, n) :
                           n \in Range(nodes_to_subscribe) }
          ELSE {})
    \cup (IF IsConnected(client) /\ ~IsConnected(client')
          THEN disconnect_accesses ELSE {})
    \cup (IF held' # held THEN reader_accesses ELSE {})

\* C29 (as claimed): every read and write of the cache and of the node map
\* that a step makes is made holding the client's lock, or replaces the
\* whole map by one assignment.
C29_AccessesUnderDiscipline ==
    [][ \A a \in StepAccesses : a.lock_held \/ a.replaces ]_vars

\* C31 (as claimed): at most one supervisory loop task exists that has not
\* been cancelled, and when a stop() call returns the client is stopped:
\* _running is false and is_connected is false.
C31_StartStopSerialised ==
    /\ [] (Cardinality(LoopTasks) <= 1)
    /\ [][ StopReturns =>
             /\ ~client'.running
             /\ ~IsConnected(client') ]_vars

\* C32: a step changes the entry of tag T only if the node map, as it is at
\* that step, maps a node to T, and when the step is the run of an update
\* task that node is the node of its notification: an update task that was
\* created before a teardown cleared the node map writes nothing after it.
C32_WriteOnlyForMappedNode ==
    [][ \A T \in DOMAIN client.data_store :
          client'.data_store[T] # client.data_store[T] =>
              \E n \in DOMAIN client.node_map :
                  /\ client.node_map[n] = T
                  /\ UpdateRuns => n = Head(pending).node ]_vars

\* C32 witness: an update task waits for a node of the session that a
\* disconnect() has since released, and the node map is cleared.
C32_Witness ==
    /\ pending # << >>
    /\ Head(pending).session = epoch
    /\ epoch \notin open
    /\ ~IsConnected(client)
    /\ client.node_map = EmptyMap
    /\ disc_pc = "idle"

\* A step in which a disconnect() that awaited client.disconnect() returns:
\* the one of a direct caller, of the supervisory task or of stop().
DisconnectReturns ==
    \/ disc_pc = "disconnecting" /\ disc_pc' = "idle"
    \/ \E i \in TaskIds : task[i] = "teardown" /\ task'[i] = "sleeping"
    \/ stop_call.pc = "disconnecting" /\ stop_call'.pc = "idle"

\* C33: when a disconnect() called on a connected client returns, whether
\* client.disconnect() returned or raised, is_connected is false, the
\* subscription reference is cleared and the node map is empty; a
\* disconnect() called on a client that is not connected returns without a
\* transport operation and changes nothing of the client, the tasks or the
\* sessions.
C33_DisconnectEndsDisconnected ==
    /\ [][ DisconnectReturns =>
             /\ ~IsConnected(client')
             /\ client'.subscription = NoSubscription
             /\ client'.node_map = EmptyMap ]_vars
    /\ [][ Calls("disconnect") =>
             /\ call'.pc = "returned"
             /\ call'.ops = 0
             /\ client' = client
             /\ open' = open
             /\ task' = task
             /\ cancel_req' = cancel_req ]_vars

\* C33 witness: a disconnect() called on the client while it was not
\* connected has returned, and so has a direct disconnect() on the connected
\* client during which the transport did not release the session
\* (client.disconnect() raised); the setup has filled the node map since.
C33_Witness ==
    /\ call.op = "disconnect"
    /\ call.pc = "returned"
    /\ ~IsConnected(client)
    /\ disc_pc = "idle"
    /\ epoch \in open
    /\ client.node_map # EmptyMap

\* A step in which the bulk read of task i fails: the task leaves
\* _populate_initial_data without a seed.
BulkReadFailed(i) ==
    /\ task[i] \in {"read_values", "read_data_values"}
    /\ task'[i] \notin {"read_values", "read_data_values", "ended"}
    /\ seeded' = NoSeed

\* C34: a failed bulk read changes nothing of the client (is_connected, the
\* subscription, the node map and every cache entry stay as they are),
\* closes no session and starts no teardown: the task goes to its sleep; and
\* a task that wakes from its sleep on a connected, running client makes no
\* connect attempt.
C34_BulkReadFailureNotFatal ==
    [][ \A i \in TaskIds :
          /\ BulkReadFailed(i) =>
                /\ client' = client
                /\ open' = open
                /\ subscribed' = subscribed
                /\ task'[i] = "sleeping"
          /\ (/\ task[i] = "sleeping"
              /\ IsConnected(client)
              /\ client.running) => task'[i] # "connecting" ]_vars

\* C34 witness: the bulk read has failed: the task sleeps, the client is
\* connected with its subscription and both nodes mapped, the nodes are
\* monitored and no cache entry has been written.
C34_Witness ==
    /\ \E i \in TaskIds : task[i] = "sleeping" /\ Live(i)
    /\ IsConnected(client)
    /\ client.running
    /\ client.subscription = epoch
    /\ epoch \in subscribed
    /\ client.node_map = ResolvedNodeMap
    /\ client.data_store = InitialDataStore
    /\ updated = {}

=============================================================================
